---- MODULE Spec2Model ----
(***************************************************************************)
(* Model of utils/kubernetes/kubeutil.py: the KubeUtil singleton, its      *)
(* kubelet discovery (_locate_kubelet), the two request executors          *)
(* (perform_kubelet_query, retrieve_json_auth), the lazy node identity    *)
(* (get_node_info / _fetch_host_data), the TLS settings resolver and the   *)
(* extractors of labels and event tags.                                    *)
(*                                                                         *)
(* Python values are modelled as follows.  A dict is a function whose      *)
(* DOMAIN is the set of keys that are present; an object is the dict of    *)
(* the attributes assigned so far.  None, True and False are the strings   *)
(* None, PyTrue and PyFalse.  A URL "scheme://host:port/path" is the       *)
(* record [scheme, host, port, path].  The network is the environment:     *)
(* every request draws its outcome (an exception, or a status and a body)  *)
(* from a small set.                                                       *)
(***************************************************************************)
EXTENDS Integers, Sequences, FiniteSets, TLC

VARIABLES
    environ,       \* os.environ: the environment variables that are set
    instance,      \* the `instance` configuration mapping of the check
    files,         \* the paths for which os.path.exists is true
    token_file,    \* content of AUTH_TOKEN_PATH, or Unreadable
    _instances,    \* the Singleton's slot for KubeUtil
    fatal,         \* the error stored with a failed discovery
    self,          \* attributes of the KubeUtil object built last
    op,            \* the operation that ran last
    args,          \* its arguments
    calls,         \* the collaborators it called, in order
    reqs,          \* the requests it issued, in order, with their outcomes
    pods,          \* the body of the pod-list response its get_node_info received
    nodes,         \* the body of the node-list response its discovery received
    ret            \* what it returned or raised

vars == <<environ, instance, files, token_file, _instances, fatal, self,
          op, args, calls, reqs, pods, nodes, ret>>

-----------------------------------------------------------------------------
(* Bounds *)

\* longest pod list a kubelet response carries
MaxPods == 2
\* longest node list an apiserver response carries
MaxNodes == 2
\* longest pod list labels are extracted from
MaxLabelled == 2
\* longest pod list a caller retrieves
MaxListed == 2

-----------------------------------------------------------------------------
(* Python values *)

None == "<None>"
PyTrue == "<True>"
PyFalse == "<False>"
EmptyDict == [k \in {} |-> None]

\* bool(v) for the values that occur: None, False and '' are false
Truthy(v) == v \notin {None, PyFalse, ""}

\* a or b
Or(a, b) == IF Truthy(a) THEN a ELSE b

\* d.get(k)
Get(d, k) == IF k \in DOMAIN d THEN d[k] ELSE None

\* d.get(k, default)
GetD(d, k, default) == IF k \in DOMAIN d THEN d[k] ELSE default

\* '{}'.format(v) and '%s' % v of a string or None
Format(v) == IF v = None THEN "None" ELSE v

\* str.lower() on the URL schemes that occur
Lower(s) == IF s = "HTTPS" THEN "https" ELSE IF s = "HTTP" THEN "http" ELSE s

\* what an operation returns / raises
Return(v) == [raised |-> FALSE, value |-> v]
Raise(e) == [raised |-> TRUE, exc |-> e]

-----------------------------------------------------------------------------
(* Class constants of KubeUtil *)

DEFAULT_TLS_VERIFY == PyTrue
DEFAULT_METHOD == "http"
KUBELET_HEALTH_PATH == "/healthz"
PODS_LIST_PATH == "/pods/"
DEFAULT_HTTP_KUBELET_PORT == 10255
DEFAULT_HTTPS_KUBELET_PORT == 10250
DEFAULT_MASTER_NAME == "kubernetes"
CA_CRT_PATH == "/run/secrets/kubernetes.io/serviceaccount/ca.crt"
AUTH_TOKEN_PATH == "/run/secrets/kubernetes.io/serviceaccount/token"

-----------------------------------------------------------------------------
(* The environment: what the network, the file system and docker answer *)

\* open(AUTH_TOKEN_PATH) raises IOError
Unreadable == "<IOError>"

\* DockerUtil().get_hostname()
docker_hostname == "dockerhost"

\* HTTP statuses a server answers with: 2xx, 3xx, 4xx, 5xx
Statuses == {200, 300, 404, 500}

\* exceptions requests.get raises
NetErrors == {"ConnectionError", "Timeout"}

\* a response body that is not JSON: Response.json() raises ValueError
NotJSON == [k \in {"<not json>"} |-> None]

\* no pod-list response was received
NoPods == [k \in {"<no response>"} |-> None]

\* no node-list response was received
NoNodes == [k \in {"<no response>"} |-> None]

\* the outcome of one requests.get
Failed(e) == [exc |-> e]
Response(s, b) == [exc |-> None, status |-> s, body |-> b]

\* outcomes of a health probe (the body of /healthz is never read)
ProbeOutcomes == {Failed(e) : e \in NetErrors} \cup {Response(s, NotJSON) : s \in Statuses}

-----------------------------------------------------------------------------
(* URLs *)

\* '%s://%s:%s' % (scheme, host, port)
BaseURL(scheme, host, port) == [scheme |-> scheme, host |-> host, port |-> port, path |-> ""]

\* urljoin(base, path) for an absolute path: the base's path is replaced
urljoin(base, path) == [base EXCEPT !.path = path]

\* url.lower().startswith('https')
StartsWithHttps(url) == Lower(url.scheme) = "https"

-----------------------------------------------------------------------------
(* Authenticated Request Executor *)

\* headers=None
NoHeaders == EmptyDict

\* {'Authorization': 'Bearer {}'.format(token)}
BearerHeaders(token) == "Authorization" :> <<"Bearer", Format(token)>>

\* cert=None: no client certificate
NoCert == <<>>

\* a token that is kept from an earlier read: a rotated file is not seen
get_auth_token_kept == IF token_file = Unreadable THEN None
                       ELSE IF token_file = "tok2" THEN "tok1" ELSE token_file

\* KubeUtil.get_auth_token: the token file's content, None on IOError
get_auth_token == IF token_file = Unreadable THEN None ELSE token_file

\* the request requests.get sends, logged with the exception it raised or
\* the status that came back (status 0: no response)
Request(url, timeout, verify, cert, headers, params, outcome) ==
    [url |-> url, timeout |-> timeout, verify |-> verify, cert |-> cert,
     headers |-> headers, params |-> params,
     exc |-> outcome.exc,
     status |-> IF outcome.exc # None THEN 0 ELSE outcome.status]

\* a query that sends the token even when a client certificate is used
perform_kubelet_query_token_too(tls, url, outcome) ==
    LET cert == GetD(tls, "kubelet_client_cert", NoCert)
        verify == GetD(tls, "verify", DEFAULT_TLS_VERIFY)
        headers == IF StartsWithHttps(url)
                   THEN BearerHeaders(get_auth_token)
                   ELSE NoHeaders
    IN  [req |-> Request(url, 10, verify, cert, headers, "verbose" :> PyTrue, outcome),
         res |-> IF outcome.exc # None THEN Raise(outcome.exc) ELSE Return(outcome)]

\* KubeUtil.perform_kubelet_query(url, verbose=True, timeout=10) under
\* tls_settings tls, when requests.get ends in `outcome`.  The response is
\* returned whatever its status; only an exception of requests.get escapes.
perform_kubelet_query(tls, url, outcome) ==
    LET cert == GetD(tls, "kubelet_client_cert", NoCert)
        verify == GetD(tls, "verify", DEFAULT_TLS_VERIFY)
        headers == IF cert = NoCert /\ StartsWithHttps(url)
                   THEN BearerHeaders(get_auth_token)
                   ELSE NoHeaders
    IN  [req |-> Request(url, 10, verify, cert, headers, "verbose" :> PyTrue, outcome),
         res |-> IF outcome.exc # None THEN Raise(outcome.exc) ELSE Return(outcome)]

\* a status check that lets client errors through
raise_for_status_5xx(status) == 500 <= status /\ status < 600

\* Response.raise_for_status(): HTTPError for a 4xx or a 5xx status
raise_for_status(status) == 400 <= status /\ status < 600

\* KubeUtil.retrieve_json_auth(url, auth_token, timeout=10, verify=verify)
retrieve_json_auth(url, auth_token, verify, outcome) ==
    LET v == IF verify = None
             THEN (IF CA_CRT_PATH \in files THEN CA_CRT_PATH ELSE PyFalse)
             ELSE verify
        headers == BearerHeaders(auth_token)
    IN  [req |-> Request(url, 10, v, NoCert, headers, EmptyDict, outcome),
         res |-> IF outcome.exc # None THEN Raise(outcome.exc)
                 ELSE IF raise_for_status(outcome.status) THEN Raise("HTTPError")
                 ELSE IF outcome.body = NotJSON THEN Raise("ValueError")
                 ELSE Return(outcome.body)]

-----------------------------------------------------------------------------
(* Apiserver node lookup *)

\* node addresses an apiserver reports
AddressLists ==
    { << [type |-> "InternalIP", address |-> "10.0.0.9"] >>,
      << [type |-> "InternalIP", address |-> "10.0.0.9"],
         [type |-> "Hostname", address |-> "k8shost"] >> }

\* node items: without a status, or with a status holding addresses
NodeItems == {EmptyDict} \cup {"status" :> ("addresses" :> a) : a \in AddressLists}

\* sequences over S of length at most n
SeqUpTo(S, n) == UNION {[1..k -> S] : k \in 0..n}

\* bodies of the apiserver's answer to GET /api/v1/nodes
NodeBodies == {NotJSON, EmptyDict} \cup {"items" :> i : i \in SeqUpTo(NodeItems, MaxNodes)}

\* outcomes of the apiserver request
ApiOutcomes == {Failed(e) : e \in NetErrors}
               \cup {Response(s, b) : s \in Statuses, b \in NodeBodies}

\* self.kubernetes_api_url + '/nodes?%s' % urlencode({'labelSelector': ...})
NodesURL(api_url, host) ==
    [api_url EXCEPT !.path = "/api/v1/nodes",
                    !.query = "labelSelector" :> <<"kubernetes.io/hostname", host>>]

\* the address of the first entry of type Hostname, None when there is none
FirstHostname(addresses) ==
    LET hits == {i \in 1..Len(addresses) : addresses[i].type = "Hostname"}
    IN  IF hits = {} THEN None
        ELSE addresses[CHOOSE i \in hits : \A j \in hits : i <= j].address

\* get_node_hostname from line 161 on: q is what retrieve_json_auth sent
\* and returned or raised
node_hostname(q) ==
    [req |-> q.req,
     res |-> IF q.res.raised THEN q.res
             ELSE IF "items" \notin DOMAIN q.res.value THEN Raise("KeyError")
             ELSE IF Len(q.res.value["items"]) # 1 THEN Return(None)
             ELSE Return(FirstHostname(
                    GetD(GetD(q.res.value["items"][1], "status", EmptyDict),
                         "addresses", <<>>)))]

\* KubeUtil.get_node_hostname(host)
get_node_hostname(api_url, host, outcome) ==
    node_hostname(retrieve_json_auth(NodesURL(api_url, host), get_auth_token, None, outcome))

-----------------------------------------------------------------------------
(* TLS/Auth Settings Resolver *)

\* a resolver that records the client pair without looking for the files
_init_tls_settings_unchecked(inst) ==
    LET client_crt == Get(inst, "kubelet_client_crt")
        client_key == Get(inst, "kubelet_client_key")
        cert == Get(inst, "kubelet_cert")
        client == IF Truthy(client_crt) /\ Truthy(client_key)
                  THEN "kubelet_client_cert" :> <<client_crt, client_key>>
                  ELSE EmptyDict
        verify == IF Truthy(cert) THEN cert
                  ELSE GetD(inst, "kubelet_tls_verify", DEFAULT_TLS_VERIFY)
    IN  client @@ ("verify" :> verify)

\* KubeUtil._init_tls_settings(instance)
_init_tls_settings(inst) ==
    LET client_crt == Get(inst, "kubelet_client_crt")
        client_key == Get(inst, "kubelet_client_key")
        cert == Get(inst, "kubelet_cert")
        client == IF /\ Truthy(client_crt) /\ Truthy(client_key)
                     /\ client_crt \in files /\ client_key \in files
                  THEN "kubelet_client_cert" :> <<client_crt, client_key>>
                  ELSE EmptyDict
        verify == IF Truthy(cert) THEN cert
                  ELSE GetD(inst, "kubelet_tls_verify", DEFAULT_TLS_VERIFY)
    IN  client @@ ("verify" :> verify)

-----------------------------------------------------------------------------
(* Kubelet Locator *)

\* the port of the no-auth probe: instance.get('kubelet_port', 10255)
HttpPort(inst) == GetD(inst, "kubelet_port", DEFAULT_HTTP_KUBELET_PORT)

\* an HTTPS probe that goes to its default port whatever is configured
HttpsPort_default(inst) == DEFAULT_HTTPS_KUBELET_PORT

\* the port of the HTTPS probe: instance.get('kubelet_port', 10250)
HttpsPort(inst) == GetD(inst, "kubelet_port", DEFAULT_HTTPS_KUBELET_PORT)

\* a selection that prefers the configured host to the environment's
GivenHost_config_first(inst) == Or(Get(inst, "host"), Get(environ, "KUBERNETES_KUBELET_HOST"))

\* os.environ.get('KUBERNETES_KUBELET_HOST') or instance.get("host")
GivenHost(inst) == Or(Get(environ, "KUBERNETES_KUBELET_HOST"), Get(inst, "host"))

\* a selection that takes the lookup's result as it is, None included
chosen_host_no_fallback(tls, inst, k8s) ==
    LET derive == ~Truthy(GivenHost(inst))
        ask == derive /\ Truthy(tls["verify"])
    IN  [host |-> IF ~derive THEN GivenHost(inst)
                  ELSE IF ask /\ ~k8s.res.raised
                       THEN k8s.res.value
                       ELSE docker_hostname,
         calls |-> (IF derive THEN <<"docker_util.get_hostname">> ELSE <<>>)
                   \o (IF ask THEN <<"get_node_hostname">> ELSE <<>>),
         reqs |-> IF ask THEN <<k8s.req>> ELSE <<>>]

\* _locate_kubelet, lines 119-132, given the result k8s of get_node_hostname:
\* the host given by the environment or the configuration; without one,
\* docker's hostname, or with verification on the node hostname of the
\* apiserver (docker's when the lookup raises or returns None)
chosen_host(tls, inst, k8s) ==
    LET derive == ~Truthy(GivenHost(inst))
        ask == derive /\ Truthy(tls["verify"])
    IN  [host |-> IF ~derive THEN GivenHost(inst)
                  ELSE IF ask /\ ~k8s.res.raised
                       THEN Or(k8s.res.value, docker_hostname)
                       ELSE docker_hostname,
         calls |-> (IF derive THEN <<"docker_util.get_hostname">> ELSE <<>>)
                   \o (IF ask THEN <<"get_node_hostname">> ELSE <<>>),
         reqs |-> IF ask THEN <<k8s.req>> ELSE <<>>]

\* _locate_kubelet, host selection; `api` is the outcome of the apiserver
\* request, if it is made
select_host(tls, api_url, inst, api) ==
    chosen_host(tls, inst, get_node_hostname(api_url, docker_hostname, api))

\* a locator that goes on to the HTTPS probe after the HTTP probe succeeded
probe_kubelet_fallthrough(tls, inst, sel, o1, o2) ==
    LET no_auth_url == BaseURL("http", sel.host, HttpPort(inst))
        q1 == perform_kubelet_query(tls, urljoin(no_auth_url, KUBELET_HEALTH_PATH), o1)
        https_url == BaseURL("https", sel.host, HttpsPort(inst))
        q2 == perform_kubelet_query(tls, urljoin(https_url, KUBELET_HEALTH_PATH),
                                    Response(200, NotJSON))
    IN  IF ~q1.res.raised
        THEN [calls |-> sel.calls, reqs |-> sel.reqs \o <<q1.req, q2.req>>,
              res |-> Return(https_url)]
        ELSE [calls |-> sel.calls, reqs |-> sel.reqs \o <<q1.req>>, res |-> q1.res]

\* a locator that returns the no-auth URL after the HTTPS probe succeeded
probe_kubelet_wrong_url(tls, inst, sel, o1, o2) ==
    LET no_auth_url == BaseURL("http", sel.host, HttpPort(inst))
        q1 == perform_kubelet_query(tls, urljoin(no_auth_url, KUBELET_HEALTH_PATH), o1)
        https_url == BaseURL("https", sel.host, HttpsPort(inst))
        q2 == perform_kubelet_query(tls, urljoin(https_url, KUBELET_HEALTH_PATH), o2)
    IN  IF ~q1.res.raised
        THEN [calls |-> sel.calls, reqs |-> sel.reqs \o <<q1.req>>,
              res |-> Return(no_auth_url)]
        ELSE [calls |-> sel.calls, reqs |-> sel.reqs \o <<q1.req, q2.req>>,
              res |-> IF q2.res.raised THEN q2.res ELSE Return(no_auth_url)]

\* _locate_kubelet, lines 133-149, after the host selection sel: the no-auth
\* URL when the HTTP query of its health path does not raise; otherwise the
\* HTTPS URL when the HTTPS query does not raise, whose exception escapes.
\* o1 and o2 are the outcomes of the two queries.
probe_kubelet(tls, inst, sel, o1, o2) ==
    LET no_auth_url == BaseURL("http", sel.host, HttpPort(inst))
        q1 == perform_kubelet_query(tls, urljoin(no_auth_url, KUBELET_HEALTH_PATH), o1)
        https_url == BaseURL("https", sel.host, HttpsPort(inst))
        q2 == perform_kubelet_query(tls, urljoin(https_url, KUBELET_HEALTH_PATH), o2)
    IN  IF ~q1.res.raised
        THEN [calls |-> sel.calls, reqs |-> sel.reqs \o <<q1.req>>,
              res |-> Return(no_auth_url)]
        ELSE [calls |-> sel.calls, reqs |-> sel.reqs \o <<q1.req, q2.req>>,
              res |-> IF q2.res.raised THEN q2.res ELSE Return(https_url)]

\* KubeUtil._locate_kubelet(instance) of an object with tls_settings tls and
\* kubernetes_api_url api_url
_locate_kubelet(tls, api_url, inst, api, o1, o2) ==
    probe_kubelet(tls, inst, select_host(tls, api_url, inst, api), o1, o2)

\* 'https://%s/api/v1' % host
ApiURL(host) == [scheme |-> "https", host |-> host, path |-> "/api/v1",
                 query |-> EmptyDict]

\* kubelet_api_url.split(':')[1].lstrip('/'), for a host without ':' or
\* leading '/'
HostOf(url) == url.host

DEFAULT_CADVISOR_PORT == 4194
METRICS_PATH == "/api/v1.3/subcontainers/"
MACHINE_INFO_PATH == "/api/v1.3/machine/"

\* attributes whose method is the default whatever is configured
early_attrs_default_method(inst) ==
    [method |-> DEFAULT_METHOD,
     _node_ip |-> None, _node_name |-> None,
     host_name |-> Get(environ, "HOSTNAME"),
     kubernetes_api_url |->
         ApiURL(Or(Get(environ, "KUBERNETES_SERVICE_HOST"), DEFAULT_MASTER_NAME)),
     tls_settings |-> _init_tls_settings(inst)]

\* __init__, lines 63-71: the attributes assigned before the discovery
early_attrs(inst) ==
    [method |-> GetD(inst, "method", DEFAULT_METHOD),
     _node_ip |-> None, _node_name |-> None,
     host_name |-> Get(environ, "HOSTNAME"),
     kubernetes_api_url |->
         ApiURL(Or(Get(environ, "KUBERNETES_SERVICE_HOST"), DEFAULT_MASTER_NAME)),
     tls_settings |-> _init_tls_settings(inst)]

\* __init__, lines 80-92: the attributes assigned after the discovery
\* returned url, on an object whose method is `method`
late_attrs(inst, method, url) ==
    [kubelet_api_url |-> url, kubelet_host |-> HostOf(url),
     pods_list_url |-> urljoin(url, PODS_LIST_PATH),
     kube_health_url |-> urljoin(url, KUBELET_HEALTH_PATH),
     cadvisor_port |-> GetD(inst, "port", DEFAULT_CADVISOR_PORT),
     cadvisor_url |->
         BaseURL(method, HostOf(url), GetD(inst, "port", DEFAULT_CADVISOR_PORT)),
     metrics_url |->
         urljoin(BaseURL(method, HostOf(url), GetD(inst, "port", DEFAULT_CADVISOR_PORT)),
                 METRICS_PATH),
     machine_info_url |->
         urljoin(BaseURL(method, HostOf(url), GetD(inst, "port", DEFAULT_CADVISOR_PORT)),
                 MACHINE_INFO_PATH),
     last_event_collection_ts |-> 0]

\* __init__, lines 72-92, given the attributes assigned so far and what
\* _locate_kubelet did: when it raised, the exception is re-raised and the
\* attributes from kubelet_api_url on are never assigned.  (_locate_kubelet
\* returns a non-empty URL or raises, so `if not self.kubelet_api_url`
\* never fires.)
located(inst, early, loc) ==
    IF loc.res.raised
    THEN [self |-> early, calls |-> loc.calls, reqs |-> loc.reqs, res |-> loc.res]
    ELSE [self |-> early @@ late_attrs(inst, early.method, loc.res.value),
          calls |-> loc.calls, reqs |-> loc.reqs, res |-> Return("KubeUtil")]

\* KubeUtil.__init__(instance): the attributes assigned, the calls and
\* requests made, and the outcome
__init__(inst, api, o1, o2) ==
    located(inst, early_attrs(inst),
            _locate_kubelet(_init_tls_settings(inst),
                            ApiURL(Or(Get(environ, "KUBERNETES_SERVICE_HOST"),
                                      DEFAULT_MASTER_NAME)),
                            inst, api, o1, o2))

-----------------------------------------------------------------------------
(* The Singleton metaclass *)

\* a Singleton that constructs again after a failed discovery
Singleton_call_retry(slot) == IF slot = "present" THEN "reuse" ELSE "construct"

\* Singleton.__call__: what a KubeUtil() call does in each state of the slot:
\* the first call constructs; once an instance exists it is handed out; once
\* a discovery has failed the stored error is raised again
Singleton_call(slot) ==
    CASE slot = "absent" -> "construct"
      [] slot = "present" -> "reuse"
      [] slot = "failed" -> "reraise"

-----------------------------------------------------------------------------
(* Pod list and node identity *)

\* the pods a kubelet lists: the pod of this agent ("pod1") with or without
\* status.hostIP and spec.nodeName, another pod, and a pod without a name
PodItems ==
    {("metadata" :> ("name" :> "pod1")) @@ st @@ sp :
        st \in {EmptyDict, "status" :> ("hostIP" :> "10.0.0.5")},
        sp \in {EmptyDict, "spec" :> ("nodeName" :> "node-a")}}
    \cup {[metadata |-> "name" :> "other", status |-> "hostIP" :> "10.0.0.7",
           spec |-> "nodeName" :> "node-b"],
          [metadata |-> EmptyDict, status |-> "hostIP" :> "10.0.0.8",
           spec |-> "nodeName" :> "node-c"]}

\* bodies of the kubelet's answer to GET /pods/
PodBodies == {NotJSON, EmptyDict} \cup {"items" :> i : i \in SeqUpTo(PodItems, MaxPods)}

\* outcomes of the pod-list request
PodsOutcomes == {Failed(e) : e \in NetErrors}
                \cup {Response(s, b) : s \in {200, 500}, b \in PodBodies}

\* KubeUtil.retrieve_pods_list(): perform_kubelet_query(pods_list_url).json()
retrieve_pods_list(obj, outcome) ==
    LET q == perform_kubelet_query(obj.tls_settings, obj.pods_list_url, outcome)
    IN  [req |-> q.req,
         res |-> IF q.res.raised THEN q.res
                 ELSE IF q.res.value.body = NotJSON THEN Raise("ValueError")
                 ELSE Return(q.res.value.body)]

\* a scan that takes every pod of the list for the local one
named_any(res, name) == 1..Len(GetD(res.value, "items", <<>>))

\* the pods of a retrieved list whose metadata.name equals name
named(res, name) ==
    {i \in 1..Len(GetD(res.value, "items", <<>>)) :
        Get(GetD(res.value["items"][i], "metadata", EmptyDict), "name") = name}

\* the first of them
first_named(res, name) ==
    res.value["items"][CHOOSE i \in named(res, name) : \A j \in named(res, name) : i <= j]

\* a refresh that records a failed retrieval as "found, empty"
scan_pods_caches_failure(obj, q) ==
    [req |-> q.req,
     self |-> IF q.res.raised THEN [obj EXCEPT !._node_ip = "", !._node_name = ""]
              ELSE IF named(q.res, obj.host_name) = {} THEN obj
              ELSE [obj EXCEPT
                      !._node_ip = GetD(GetD(first_named(q.res, obj.host_name),
                                             "status", EmptyDict), "hostIP", ""),
                      !._node_name = GetD(GetD(first_named(q.res, obj.host_name),
                                               "spec", EmptyDict), "nodeName", "")]]

\* _fetch_host_data, given what retrieve_pods_list did: an exception is
\* swallowed and nothing assigned; otherwise the first pod whose
\* metadata.name equals host_name sets both fields
scan_pods(obj, q) ==
    [req |-> q.req,
     self |-> IF q.res.raised \/ named(q.res, obj.host_name) = {} THEN obj
              ELSE [obj EXCEPT
                      !._node_ip = GetD(GetD(first_named(q.res, obj.host_name),
                                             "status", EmptyDict), "hostIP", ""),
                      !._node_name = GetD(GetD(first_named(q.res, obj.host_name),
                                               "spec", EmptyDict), "nodeName", "")]]

\* a refresh that assigns the node IP only
_fetch_host_data_ip_only(obj, outcome) ==
    [req |-> scan_pods(obj, retrieve_pods_list(obj, outcome)).req,
     self |-> [scan_pods(obj, retrieve_pods_list(obj, outcome)).self
                  EXCEPT !._node_name = obj._node_name]]

\* KubeUtil._fetch_host_data(): the object afterwards and the request made
_fetch_host_data(obj, outcome) == scan_pods(obj, retrieve_pods_list(obj, outcome))

\* a get_node_info that refreshes on every call
NeedsFetch_always(obj) == TRUE

\* the test of get_node_info: None in (self._node_ip, self._node_name)
NeedsFetch(obj) == obj._node_ip = None \/ obj._node_name = None

-----------------------------------------------------------------------------
(* Initial states *)

\* a dict with key k bound to a value of S, or without the key
Opt(k, S) == {EmptyDict} \cup {k :> v : v \in S}

CLIENT_CRT == "/etc/kubelet/client.crt"
CLIENT_KEY == "/etc/kubelet/client.key"
KUBELET_CA == "/etc/kubelet/ca.crt"

\* client certificate settings: none, both paths, the certificate only
ClientConfigs == {EmptyDict,
                  ("kubelet_client_crt" :> CLIENT_CRT) @@ ("kubelet_client_key" :> CLIENT_KEY),
                  "kubelet_client_crt" :> CLIENT_CRT}

AllFiles == {CLIENT_CRT, CLIENT_KEY, KUBELET_CA, CA_CRT_PATH}

\* every combination of the settings discovery reads
Environs ==
    {a @@ ("HOSTNAME" :> "pod1") : a \in Opt("KUBERNETES_KUBELET_HOST", {"", "envhost"})}

Instances ==
    {h @@ p @@ m @@ v @@ c @@ cc :
        h \in Opt("host", {"cfghost"}),
        p \in Opt("kubelet_port", {10260}),
        m \in Opt("method", {"https"}),
        v \in Opt("kubelet_tls_verify", {PyFalse}),
        c \in Opt("kubelet_cert", {KUBELET_CA}),
        cc \in ClientConfigs}

FileSets == {AllFiles, {}}

Tokens == {Unreadable, "tok1"}

\* nothing constructed yet
Fresh ==
    /\ _instances = "absent"
    /\ fatal = None
    /\ self = EmptyDict
    /\ op = "start"
    /\ args = <<>>
    /\ calls = <<>>
    /\ reqs = <<>>
    /\ pods = NoPods
    /\ nodes = NoNodes
    /\ ret = Return(None)

\* a process with any configuration
InitLocate ==
    /\ environ \in Environs
    /\ instance \in Instances
    /\ files \in FileSets
    /\ token_file \in Tokens
    /\ Fresh

\* a process whose kubelet host is given, with or without a client
\* certificate, its files, a readable token and a HOSTNAME
Init ==
    /\ environ \in {("KUBERNETES_KUBELET_HOST" :> "envhost") @@ b : b \in Opt("HOSTNAME", {"pod1"})}
    /\ instance \in {cc \in ClientConfigs : DOMAIN cc # {"kubelet_client_crt"}}
    /\ files \in FileSets
    /\ token_file \in Tokens
    /\ Fresh

-----------------------------------------------------------------------------
(* Operations *)

\* stands for the outcome of a request that is not made
NoRequest == Failed("<no request>")

\* whether _locate_kubelet asks the apiserver for the node's hostname
Asks(inst) == ~Truthy(GivenHost(inst)) /\ Truthy(_init_tls_settings(inst)["verify"])

Unchanged == UNCHANGED <<environ, instance, files, token_file>>

\* the effect of a construction c on the process
Constructs(c) ==
    /\ self' = c.self
    /\ calls' = c.calls
    /\ reqs' = c.reqs
    /\ ret' = c.res
    /\ _instances' = IF c.res.raised THEN "failed" ELSE "present"
    /\ fatal' = IF c.res.raised THEN c.res.exc ELSE None

\* KubeUtil(): Singleton.__call__, and KubeUtil.__init__ when it constructs
KubeUtil ==
    /\ op' = "KubeUtil"
    /\ args' = <<>>
    /\ pods' = NoPods
    /\ Unchanged
    /\ CASE Singleton_call(_instances) = "construct" ->
              \E api \in (IF Asks(instance) THEN ApiOutcomes ELSE {NoRequest}) :
              \E o1 \in ProbeOutcomes :
              \E o2 \in (IF o1.exc # None THEN ProbeOutcomes ELSE {NoRequest}) :
                /\ Constructs(__init__(instance, api, o1, o2))
                /\ nodes' = IF api.exc # None THEN NoNodes ELSE api.body
         [] Singleton_call(_instances) = "reuse" ->
                /\ ret' = Return("KubeUtil")
                /\ calls' = <<>>
                /\ reqs' = <<>>
                /\ nodes' = NoNodes
                /\ UNCHANGED <<self, _instances, fatal>>
         [] Singleton_call(_instances) = "reraise" ->
                /\ ret' = Raise(fatal)
                /\ calls' = <<>>
                /\ reqs' = <<>>
                /\ nodes' = NoNodes
                /\ UNCHANGED <<self, _instances, fatal>>

\* a refresh that locates the kubelet again and lands on the other scheme
Refreshes_relocates(f) ==
    /\ self' = [f.self EXCEPT !.kubelet_api_url.scheme =
                    IF f.self.kubelet_api_url.scheme = "http" THEN "https" ELSE "http"]
    /\ reqs' = <<f.req>>
    /\ ret' = Return(<<f.self._node_ip, f.self._node_name>>)

\* the effect of a refresh f on the process
Refreshes(f) ==
    /\ self' = f.self
    /\ reqs' = <<f.req>>
    /\ ret' = Return(<<f.self._node_ip, f.self._node_name>>)

\* KubeUtil().get_node_info()
get_node_info ==
    /\ _instances = "present"
    /\ op' = "get_node_info"
    /\ args' = <<>>
    /\ calls' = <<>>
    /\ nodes' = NoNodes
    /\ Unchanged
    /\ UNCHANGED <<_instances, fatal>>
    /\ IF NeedsFetch(self)
       THEN \E outcome \in PodsOutcomes :
              /\ Refreshes(_fetch_host_data(self, outcome))
              /\ pods' = IF outcome.exc # None THEN NoPods ELSE outcome.body
       ELSE /\ self' = self
            /\ reqs' = <<>>
            /\ pods' = NoPods
            /\ ret' = Return(<<self._node_ip, self._node_name>>)

\* URLs a caller queries the kubelet with
QueryURLs(obj) ==
    {obj.pods_list_url, obj.kube_health_url}
    \cup {[scheme |-> sch, host |-> obj.kubelet_host, port |-> DEFAULT_HTTPS_KUBELET_PORT,
           path |-> "/spec/"] : sch \in {"http", "https", "HTTPS"}}

\* a query that gives up with a local error when it has no token to send
Queries_needs_token(q) ==
    /\ reqs' = IF Get(q.req.headers, "Authorization") = <<"Bearer", "None">>
               THEN <<>> ELSE <<q.req>>
    /\ ret' = IF Get(q.req.headers, "Authorization") = <<"Bearer", "None">>
              THEN Raise("IOError") ELSE q.res
    /\ calls' = <<>>
    /\ pods' = NoPods
    /\ nodes' = NoNodes
    /\ Unchanged
    /\ UNCHANGED <<_instances, fatal, self>>

\* the effect of a request q made for a caller
Queries(q) ==
    /\ reqs' = <<q.req>>
    /\ ret' = q.res
    /\ calls' = <<>>
    /\ pods' = NoPods
    /\ nodes' = NoNodes
    /\ Unchanged
    /\ UNCHANGED <<_instances, fatal, self>>

\* KubeUtil().perform_kubelet_query(url)
query_kubelet ==
    /\ _instances = "present"
    /\ \E url \in QueryURLs(self), outcome \in ProbeOutcomes :
         /\ op' = "perform_kubelet_query"
         /\ args' = <<url>>
         /\ Queries(perform_kubelet_query(self.tls_settings, url, outcome))

\* outcomes of a request for a JSON document
JsonOutcomes == {Failed(e) : e \in NetErrors}
                \cup {Response(st, b) : st \in Statuses, b \in {NotJSON, EmptyDict}}

\* the URL of the apiserver's events
EventsURL(obj) == [obj.kubernetes_api_url EXCEPT !.path = "/api/v1/events"]

\* KubeUtil().retrieve_json_auth(url, auth_token, verify=verify)
query_apiserver ==
    /\ _instances = "present"
    /\ \E token \in {None, "tok9"}, verify \in {None, PyTrue}, outcome \in JsonOutcomes :
         /\ op' = "retrieve_json_auth"
         /\ args' = <<EventsURL(self), token, verify>>
         /\ Queries(retrieve_json_auth(EventsURL(self), token, verify, outcome))

-----------------------------------------------------------------------------
(* Specifications *)

\* discovery alone, over every configuration
NextLocate == KubeUtil

SpecLocate == InitLocate /\ [][NextLocate]_vars

\* construction followed by any sequence of operations
Next ==
    \/ KubeUtil
    \/ get_node_info
    \/ query_kubelet
    \/ query_apiserver

Spec == Init /\ [][Next]_vars

-----------------------------------------------------------------------------
(* Discovery: claims C1-C4, C9, C10, checked under SpecLocate *)

\* the request is a health probe
IsProbe(r) == r.url.path = KUBELET_HEALTH_PATH

\* the health probes of the last operation, in the order they were issued
Probes == SelectSeq(reqs, IsProbe)

\* the last operation was a KubeUtil() call that ran a discovery
Discovered == op = "KubeUtil" /\ Probes # <<>>

\* the base URL a probe was sent to
BaseOf(r) == [r.url EXCEPT !.path = ""]

\* a health probe failed: connection error, timeout or a non-2xx status
ProbeFailed(r) == r.exc # None \/ r.status < 200 \/ r.status >= 300

\* the object holds a kubelet base URL
HasURL == "kubelet_api_url" \in DOMAIN self

\* C1: in a discovery the HTTP probe is issued before any HTTPS probe, and
\* when the HTTP probe returns status 200 the base URL has scheme http and
\* no HTTPS probe is issued.
C1_HttpProbeFirst ==
    Discovered =>
        /\ Probes[1].url.scheme = "http"
        /\ \A i \in 2..Len(Probes) : Probes[i].url.scheme = "https"
        /\ (Probes[1].exc = None /\ Probes[1].status = 200) =>
              /\ Len(Probes) = 1
              /\ ~ret.raised
              /\ HasURL
              /\ self.kubelet_api_url.scheme = "http"
              /\ self.kubelet_api_url = BaseOf(Probes[1])

\* C1 witness: a discovery whose HTTP probe returned 200 and chose http
C1_Witness ==
    /\ Discovered
    /\ Len(Probes) = 1
    /\ Probes[1].status = 200
    /\ HasURL
    /\ self.kubelet_api_url.scheme = "http"

\* C2: when the HTTP probe fails with a connection error and the HTTPS probe
\* then succeeds, construction completes and kubelet_api_url is the HTTPS
\* base URL.
C2_HttpsAfterRefusal ==
    (/\ Discovered
     /\ Len(Probes) = 2
     /\ Probes[1].exc = "ConnectionError"
     /\ Probes[2].exc = None
     /\ Probes[2].status = 200) =>
        /\ ~ret.raised
        /\ _instances = "present"
        /\ HasURL
        /\ self.kubelet_api_url.scheme = "https"
        /\ self.kubelet_api_url = BaseOf(Probes[2])

\* C2 witness: HTTP refused, HTTPS answered 200, the https URL is stored
C2_Witness ==
    /\ Discovered
    /\ Len(Probes) = 2
    /\ Probes[1].exc = "ConnectionError"
    /\ Probes[2].status = 200
    /\ HasURL
    /\ self.kubelet_api_url.scheme = "https"

\* C3: when both the HTTP and the HTTPS health probe fail, construction
\* raises and no kubelet base URL, nor a URL derived from it, is stored.
C3_BothFailRaises ==
    (/\ Discovered
     /\ Len(Probes) = 2
     /\ ProbeFailed(Probes[1])
     /\ ProbeFailed(Probes[2])) =>
        /\ ret.raised
        /\ DOMAIN self \cap {"kubelet_api_url", "kubelet_host", "pods_list_url",
                             "kube_health_url"} = {}

\* C4: every kind of HTTP-probe failure (connection error, timeout, non-2xx
\* status) makes the locator go on to the HTTPS probe, and a non-2xx HTTP
\* response never selects the http base URL.
C4_AnyHttpFailureGoesOn ==
    (Discovered /\ ProbeFailed(Probes[1])) =>
        /\ Len(Probes) = 2
        /\ Probes[2].url.scheme = "https"
        /\ HasURL => self.kubelet_api_url.scheme # "http"

\* C9: once a discovery has failed, a later KubeUtil() call issues no
\* request and raises the stored error.
C9_NoReprobeAfterFailure ==
    [][(_instances = "failed" /\ op' = "KubeUtil") =>
          /\ reqs' = <<>>
          /\ calls' = <<>>
          /\ ret' = Raise(fatal)
          /\ fatal \in NetErrors
          /\ _instances' = "failed"]_vars

\* C9 witness: a KubeUtil() call after the failure, answered with the error
C9_Witness ==
    /\ _instances = "failed"
    /\ op = "KubeUtil"
    /\ reqs = <<>>
    /\ ret = Raise(fatal)

\* a host value is present: set and not empty
Present(h) == h # None /\ h # ""

\* C10: the kubelet host is the KUBERNETES_KUBELET_HOST value if present,
\* else the configured host if present, else a derived hostname; when one
\* of the first two is present neither docker's hostname nor the apiserver
\* is asked.
C10_HostSelectionOrder ==
    Discovered =>
        LET e == Get(environ, "KUBERNETES_KUBELET_HOST")
            c == Get(instance, "host")
            h == Probes[1].url.host
        IN  /\ \A i \in 1..Len(Probes) : Probes[i].url.host = h
            /\ Present(e) => h = e
            /\ (~Present(e) /\ Present(c)) => h = c
            /\ (Present(e) \/ Present(c)) => (calls = <<>> /\ reqs = Probes)
            /\ (~Present(e) /\ ~Present(c)) =>
                  /\ h \in {docker_hostname, "k8shost"}
                  /\ calls # <<>>
                  /\ calls[1] = "docker_util.get_hostname"

\* C10 witness: both hosts given, the environment's is probed, no lookup
C10_Witness ==
    /\ Discovered
    /\ Present(Get(environ, "KUBERNETES_KUBELET_HOST"))
    /\ Present(Get(instance, "host"))
    /\ Probes[1].url.host = Get(environ, "KUBERNETES_KUBELET_HOST")
    /\ calls = <<>>

-----------------------------------------------------------------------------
(* Requests and node identity: claims C5-C8, checked under Spec *)

\* the request was sent by perform_kubelet_query
IsKubeletQuery(r) == "verbose" \in DOMAIN r.params

\* the kubelet queries of the last operation
KubeletQueries == SelectSeq(reqs, IsKubeletQuery)

\* the URL's scheme is https, in any case of letters
IsHttps(url) == url.scheme \in {"https", "HTTPS"}

\* the request carries an Authorization header
HasAuth(r) == "Authorization" \in DOMAIN r.headers

\* the Authorization header made of the token file's present content
TokenHeader == <<"Bearer", IF token_file = Unreadable THEN "None" ELSE token_file>>

\* C5: every perform_kubelet_query request carries the client certificate
\* and no Authorization header when a certificate is configured; otherwise
\* an https URL carries 'Authorization: Bearer <token>' and an http URL no
\* Authorization header.  No request carries both.
C5_CertOrToken ==
    \A i \in 1..Len(KubeletQueries) :
        LET r == KubeletQueries[i]
            tls == self.tls_settings
        IN  /\ "kubelet_client_cert" \in DOMAIN tls =>
                  (r.cert = tls["kubelet_client_cert"] /\ ~HasAuth(r))
            /\ "kubelet_client_cert" \notin DOMAIN tls =>
                  /\ r.cert = NoCert
                  /\ IsHttps(r.url) => (HasAuth(r) /\ r.headers["Authorization"] = TokenHeader)
                  /\ ~IsHttps(r.url) => ~HasAuth(r)
            /\ ~(r.cert # NoCert /\ HasAuth(r))

\* C5 witness: an https query sent with the client certificate and no token
C5_Witness ==
    \E i \in 1..Len(KubeletQueries) :
        /\ KubeletQueries[i].cert = <<CLIENT_CRT, CLIENT_KEY>>
        /\ IsHttps(KubeletQueries[i].url)
        /\ ~HasAuth(KubeletQueries[i])

\* the last operation was perform_kubelet_query and got a response
KubeletAnswered == op = "perform_kubelet_query" /\ reqs[1].exc = None

\* perform_kubelet_query returns the response whatever its status
ReturnsAnyStatus ==
    KubeletAnswered => (~ret.raised /\ ret.value.status = reqs[1].status)

\* retrieve_json_auth sent the bearer token it was given
SendsGivenToken ==
    op = "retrieve_json_auth" =>
        (Len(reqs) = 1 /\ reqs[1].headers = ("Authorization" :> <<"Bearer", Format(args[2])>>))

\* C6 as stated: retrieve_json_auth sends the token it was given, raises for
\* every non-2xx status and returns without raising only for a 2xx status;
\* perform_kubelet_query returns the response for any status.
C6_RaisesForNon2xx ==
    /\ SendsGivenToken
    /\ ReturnsAnyStatus
    /\ op = "retrieve_json_auth" =>
          /\ (reqs[1].exc = None /\ (reqs[1].status < 200 \/ reqs[1].status >= 300))
                => ret.raised
          /\ ~ret.raised =>
                (reqs[1].exc = None /\ reqs[1].status >= 200 /\ reqs[1].status < 300)

\* C6 amended: retrieve_json_auth sends the token it was given, raises for
\* every 4xx and 5xx status and returns without raising only for a status
\* below 400; perform_kubelet_query returns the response for any status.
C6_RaisesFor4xx5xx ==
    /\ SendsGivenToken
    /\ ReturnsAnyStatus
    /\ op = "retrieve_json_auth" =>
          /\ (reqs[1].exc = None /\ reqs[1].status >= 400) => ret.raised
          /\ ~ret.raised => (reqs[1].exc = None /\ reqs[1].status < 400)

\* C6 witness: retrieve_json_auth raised on a 404 that carried the token
C6_Witness ==
    /\ op = "retrieve_json_auth"
    /\ reqs[1].status = 404
    /\ reqs[1].headers["Authorization"] = <<"Bearer", "tok9">>
    /\ ret.raised

\* the pods of a pod list that carry the name n
PodsNamed(body, n) ==
    IF "items" \notin DOMAIN body THEN {}
    ELSE {i \in 1..Len(body["items"]) :
            /\ "metadata" \in DOMAIN body["items"][i]
            /\ "name" \in DOMAIN body["items"][i]["metadata"]
            /\ body["items"][i]["metadata"]["name"] = n}

\* the first of them
FirstNamed(body, n) ==
    body["items"][CHOOSE i \in PodsNamed(body, n) : \A j \in PodsNamed(body, n) : i <= j]

\* d[a][b] when both keys are present, the empty string otherwise
FieldOrEmpty(d, a, b) ==
    IF a \in DOMAIN d /\ b \in DOMAIN d[a] THEN d[a][b] ELSE ""

\* both identity fields are set
Identified(obj) == obj._node_ip # None /\ obj._node_name # None

\* C7: a get_node_info call that finds a pod named like the local host sets
\* both identity fields (status.hostIP and spec.nodeName, the empty string
\* for an absent one); from then on the fields never change and every
\* get_node_info call returns that pair without a request.
C7_IdentityCached ==
    [][_instances = "present" =>
         /\ (/\ op' = "get_node_info"
             /\ reqs' # <<>>
             /\ PodsNamed(pods', self.host_name) # {}) =>
                LET pod == FirstNamed(pods', self.host_name) IN
                /\ self'._node_ip = FieldOrEmpty(pod, "status", "hostIP")
                /\ self'._node_name = FieldOrEmpty(pod, "spec", "nodeName")
                /\ Identified(self')
                /\ ret' = Return(<<self'._node_ip, self'._node_name>>)
         /\ Identified(self) =>
                /\ self' = self
                /\ op' = "get_node_info" =>
                      (reqs' = <<>> /\ ret' = Return(<<self._node_ip, self._node_name>>))
      ]_vars

\* C7 witness: a call answered from the cache, one field defaulted to ''
C7_Witness ==
    /\ op = "get_node_info"
    /\ reqs = <<>>
    /\ ret = Return(<<"10.0.0.5", "">>)

\* the last operation was a get_node_info whose pod-list fetch raised
FetchRaised ==
    /\ op = "get_node_info"
    /\ reqs # <<>>
    /\ (reqs[1].exc # None \/ pods = NotJSON)

\* C8: when the pod-list fetch raises, get_node_info does not raise, both
\* identity fields stay None, and the next get_node_info fetches again.
C8_FailureNotCached ==
    [][/\ FetchRaised' =>
            /\ ret' = Return(<<None, None>>)
            /\ self'._node_ip = None
            /\ self'._node_name = None
       /\ (FetchRaised /\ op' = "get_node_info") =>
            /\ Len(reqs') = 1
            /\ reqs'[1].url = self.pods_list_url
      ]_vars

\* C8 witness: a call whose fetch timed out returned (None, None)
C8_Witness ==
    /\ FetchRaised
    /\ reqs[1].exc = "Timeout"
    /\ ret = Return(<<None, None>>)
    /\ self._node_ip = None

-----------------------------------------------------------------------------
(* The resolver on its own: every TLS configuration, every set of files *)

\* the TLS settings of a check instance: each key absent, empty or set
TlsInstances ==
    {crt @@ key @@ ca @@ v :
        crt \in Opt("kubelet_client_crt", {"", CLIENT_CRT}),
        key \in Opt("kubelet_client_key", {"", CLIENT_KEY}),
        ca \in Opt("kubelet_cert", {"", KUBELET_CA}),
        v \in Opt("kubelet_tls_verify", {PyTrue, PyFalse})}

InitTls ==
    /\ environ = EmptyDict
    /\ instance \in TlsInstances
    /\ files \in SUBSET {CLIENT_CRT, CLIENT_KEY}
    /\ token_file = Unreadable
    /\ Fresh

\* self.tls_settings = self._init_tls_settings(instance), line 71
init_tls_settings ==
    /\ op = "start"
    /\ op' = "_init_tls_settings"
    /\ args' = <<instance>>
    /\ self' = ("tls_settings" :> _init_tls_settings(instance))
    /\ ret' = Return(_init_tls_settings(instance))
    /\ UNCHANGED <<calls, reqs, pods, nodes, _instances, fatal>>
    /\ Unchanged

NextTls == init_tls_settings

SpecTls == InitTls /\ [][NextTls]_vars

-----------------------------------------------------------------------------
(* C11 *)

\* the setting k of the configuration is present: set and not empty
Configured(k) == k \in DOMAIN instance /\ instance[k] # ""

\* both client paths are configured and both files exist
ClientPairUsable ==
    /\ Configured("kubelet_client_crt") /\ instance["kubelet_client_crt"] \in files
    /\ Configured("kubelet_client_key") /\ instance["kubelet_client_key"] \in files

\* the verify setting the configuration asks for
VerifyAsked ==
    IF Configured("kubelet_cert") THEN instance["kubelet_cert"]
    ELSE IF "kubelet_tls_verify" \in DOMAIN instance THEN instance["kubelet_tls_verify"]
    ELSE PyTrue

\* C11: _init_tls_settings returns settings for every configuration, without
\* an exception and without a request: they hold the client pair (certificate,
\* key) exactly when both paths are configured and both files exist, and
\* verify is the CA certificate path when one is configured, else the
\* configured boolean, else true
C11_TlsSettings ==
    op = "_init_tls_settings" =>
        /\ ~ret.raised
        /\ reqs = <<>> /\ calls = <<>>
        /\ ret.value = self.tls_settings
        /\ DOMAIN ret.value = IF ClientPairUsable
                              THEN {"kubelet_client_cert", "verify"} ELSE {"verify"}
        /\ ClientPairUsable =>
              ret.value["kubelet_client_cert"]
                  = <<instance["kubelet_client_crt"], instance["kubelet_client_key"]>>
        /\ ret.value["verify"] = VerifyAsked

\* both paths are configured but the key file is missing: no client pair
C11_Witness ==
    /\ op = "_init_tls_settings"
    /\ Configured("kubelet_client_crt") /\ Configured("kubelet_client_key")
    /\ files = {CLIENT_CRT}
    /\ "kubelet_client_cert" \notin DOMAIN self.tls_settings
    /\ self.tls_settings["verify"] = KUBELET_CA

-----------------------------------------------------------------------------
(* Label extraction *)

\* "%s/%s" % (namespace, name)
PodKey(namespace, name) == <<namespace, "/", name>>

\* u"kube_%s:%s" % (k, v)
KubeTag(k, v) == <<"kube_", k, ":", v>>

\* the elements of a list
Range(seq) == {seq[i] : i \in DOMAIN seq}

\* the tags of the labels of one pod, lines 192-195: labels is the list of
\* (key, value) pairs in the order labels.iteritems() yields them
pod_tags(labels, excluded_keys) ==
    LET kept == SelectSeq(labels, LAMBDA kv : kv[1] \notin Range(excluded_keys))
    IN  [i \in DOMAIN kept |-> KubeTag(kept[i][1], kept[i][2])]

\* an extraction that gives every pod it accepts a key, tags or not
add_pod_labels_always_keyed(kube_labels, pod, excluded_keys) ==
    LET metadata == GetD(pod, "metadata", EmptyDict)
        name == Get(metadata, "name")
        namespace == Get(metadata, "namespace")
        labels == GetD(metadata, "labels", <<>>)
        key == PodKey(namespace, name)
    IN  IF Truthy(name) /\ labels # <<>> /\ Truthy(namespace)
        THEN (key :> (GetD(kube_labels, key, <<>>) \o pod_tags(labels, excluded_keys)))
                 @@ kube_labels
        ELSE kube_labels

\* one turn of the loop of extract_kube_labels, lines 183-195: kube_labels is
\* a defaultdict(list), so a key comes to exist with its first append
add_pod_labels(kube_labels, pod, excluded_keys) ==
    LET metadata == GetD(pod, "metadata", EmptyDict)
        name == Get(metadata, "name")
        namespace == Get(metadata, "namespace")
        labels == GetD(metadata, "labels", <<>>)
        key == PodKey(namespace, name)
    IN  IF Truthy(name) /\ labels # <<>> /\ Truthy(namespace)
           /\ pod_tags(labels, excluded_keys) # <<>>
        THEN (key :> (GetD(kube_labels, key, <<>>) \o pod_tags(labels, excluded_keys)))
                 @@ kube_labels
        ELSE kube_labels

RECURSIVE labels_of(_, _, _)
\* the loop over pod_items, lines 183-195
labels_of(pod_items, excluded_keys, kube_labels) ==
    IF pod_items = <<>> THEN kube_labels
    ELSE labels_of(Tail(pod_items), excluded_keys,
                   add_pod_labels(kube_labels, Head(pod_items), excluded_keys))

\* KubeUtil.extract_kube_labels(pods_list, excluded_keys=None): kw holds the
\* keyword argument when the caller passes one
extract_kube_labels(pods_list, kw) ==
    labels_of(GetD(pods_list, "items", <<>>), GetD(kw, "excluded_keys", <<>>), EmptyDict)

\* the label maps of pods, as iteritems() yields them
LabelMaps ==
    {<<>>,
     <<<<"app", "web">>>>,
     <<<<"app", "web">>, <<"tier", "db">>>>,
     <<<<"tier", "db">>, <<"app", "web">>>>}

\* pods with and without a name, a namespace and labels
LabelledPods ==
    {"metadata" :> (n @@ ns @@ l) :
        n \in Opt("name", {"p1", "p2"}),
        ns \in Opt("namespace", {"ns"}),
        l \in Opt("labels", LabelMaps)}

\* pod lists labels are extracted from
LabelledBodies == {EmptyDict} \cup {"items" :> i : i \in SeqUpTo(LabelledPods, MaxLabelled)}

\* the excluded_keys a caller passes: none, an empty list, one key, every key
ExcludedArgs == Opt("excluded_keys", {<<>>, <<"tier">>, <<"app", "tier">>})

\* extract_kube_labels applied to a pod list
extract_labels(pods_list, kw) ==
    /\ op' = "extract_kube_labels"
    /\ args' = <<pods_list, kw>>
    /\ ret' = Return(extract_kube_labels(pods_list, kw))
    /\ calls' = <<>>
    /\ reqs' = <<>>
    /\ pods' = NoPods
    /\ nodes' = NoNodes
    /\ UNCHANGED <<self, _instances, fatal>>
    /\ Unchanged

\* the pod list and the keyword arguments of a call that is about to be made
InitLabels ==
    /\ environ = EmptyDict
    /\ instance = EmptyDict
    /\ files = {}
    /\ token_file = Unreadable
    /\ _instances = "absent"
    /\ fatal = None
    /\ self = EmptyDict
    /\ op = "call"
    /\ args \in LabelledBodies \X ExcludedArgs
    /\ calls = <<>>
    /\ reqs = <<>>
    /\ pods = NoPods
    /\ nodes = NoNodes
    /\ ret = Return(None)

\* the call is made
apply_extract_kube_labels ==
    /\ op = "call"
    /\ extract_labels(args[1], args[2])

NextLabels == apply_extract_kube_labels

SpecLabels == InitLabels /\ [][NextLabels]_vars

-----------------------------------------------------------------------------
(* C12 *)

\* the pod list and the excluded keys of the last extraction
Items == GetD(args[1], "items", <<>>)
Excluded == IF "excluded_keys" \in DOMAIN args[2] THEN Range(args[2]["excluded_keys"]) ELSE {}

\* the metadata of pod i of the list
Meta(i) == IF "metadata" \in DOMAIN Items[i] THEN Items[i]["metadata"] ELSE EmptyDict

\* pod i has a name, a namespace and a label map that is not empty
Labelled(i) ==
    /\ {"name", "namespace", "labels"} \subseteq DOMAIN Meta(i)
    /\ Meta(i)["labels"] # <<>>

\* the labels of the pods listed under key whose key is not excluded
KeptLabels(key) ==
    UNION {{<<i, j>> : j \in {l \in DOMAIN Meta(i)["labels"] :
                                  Meta(i)["labels"][l][1] \notin Excluded}} :
              i \in {k \in DOMAIN Items :
                        /\ Labelled(k)
                        /\ PodKey(Meta(k)["namespace"], Meta(k)["name"]) = key}}

\* key is mapped to one tag per label of KeptLabels(key)
OneTagPerLabel(d, key) ==
    /\ Len(d[key]) = Cardinality(KeptLabels(key))
    /\ Range(d[key]) = {KubeTag(Meta(ij[1])["labels"][ij[2]][1], Meta(ij[1])["labels"][ij[2]][2]) :
                           ij \in KeptLabels(key)}

\* the keys of the pods that have all three
LabelledKeys ==
    {PodKey(Meta(i)["namespace"], Meta(i)["name"]) : i \in {k \in DOMAIN Items : Labelled(k)}}

\* C12 as stated: extract_kube_labels returns without an error a map whose
\* keys are "<namespace>/<name>" of exactly the pods that have a name, a
\* namespace and a non-empty label map, each mapped to one "kube_<key>:<value>"
\* tag per label whose key is not excluded
C12_KeyPerLabelledPod ==
    op = "extract_kube_labels" =>
        /\ ~ret.raised
        /\ DOMAIN ret.value = LabelledKeys
        /\ \A key \in DOMAIN ret.value : OneTagPerLabel(ret.value, key)

\* C12 amended: the keys are those of exactly the pods that have a name, a
\* namespace and at least one label whose key is not excluded; each is mapped
\* to one "kube_<key>:<value>" tag per such label; every other pod is skipped
\* without an error and contributes no key
C12_KeyPerTaggedPod ==
    op = "extract_kube_labels" =>
        /\ ~ret.raised
        /\ DOMAIN ret.value = {key \in LabelledKeys : KeptLabels(key) # {}}
        /\ \A key \in DOMAIN ret.value : OneTagPerLabel(ret.value, key)

\* a pod without a namespace is skipped, a pod with two labels of which one is
\* excluded gets its key and one tag
C12_Witness ==
    /\ op = "extract_kube_labels"
    /\ Len(Items) = 2
    /\ "namespace" \notin DOMAIN Meta(1) /\ "labels" \in DOMAIN Meta(1)
    /\ Labelled(2) /\ Len(Meta(2)["labels"]) = 2
    /\ Excluded = {"tier"}
    /\ DOMAIN ret.value = {PodKey("ns", "p1")}
    /\ ret.value[PodKey("ns", "p1")] = <<KubeTag("app", "web")>>

-----------------------------------------------------------------------------
(* C13, checked under SpecLocate *)

\* the discovery of the last operation ended with a probe answered with 2xx
ProbeSucceeded ==
    /\ Discovered
    /\ ~ret.raised
    /\ ~ProbeFailed(Probes[Len(Probes)])

\* the scheme of the probe the discovery ended with
SucceededScheme == Probes[Len(Probes)].url.scheme

\* C13 as stated: after a discovery whose probe succeeded, method is the
\* scheme of that probe (http for the HTTP probe, https for the HTTPS probe)
\* and the scheme of the base URL matches it
C13_MethodIsProbeScheme ==
    ProbeSucceeded =>
        /\ self.method = SucceededScheme
        /\ self.kubelet_api_url.scheme = self.method

\* C13 amended: after a discovery whose probe succeeded, the scheme of the
\* base URL is the scheme of that probe, while method is the configured
\* method, http when none is configured, whichever probe succeeded
C13_SchemeIsProbeScheme ==
    ProbeSucceeded =>
        /\ self.kubelet_api_url.scheme = SucceededScheme
        /\ SucceededScheme = (IF Len(Probes) = 1 THEN "http" ELSE "https")
        /\ self.method = (IF "method" \in DOMAIN instance THEN instance["method"]
                          ELSE "http")

\* the HTTPS probe succeeded with no method configured: the base URL is
\* https, method is http
C13_Witness ==
    /\ ProbeSucceeded
    /\ Len(Probes) = 2
    /\ "method" \notin DOMAIN instance
    /\ self.kubelet_api_url.scheme = "https"
    /\ self.method = "http"

-----------------------------------------------------------------------------
(* C14, checked under Spec *)

\* C14: on a constructed object, whatever get_node_info calls were made and
\* however their fetches ended (raised, no matching pod, a matching pod), the
\* two identity fields are both None or both not None
C14_BothOrNeither ==
    _instances = "present" =>
        (self._node_ip = None <=> self._node_name = None)

\* a get_node_info call fetched the list and set both fields from the pod
C14_Witness ==
    /\ op = "get_node_info"
    /\ reqs # <<>>
    /\ self._node_ip = "10.0.0.5"
    /\ self._node_name = "node-a"

-----------------------------------------------------------------------------
(* The token file changes under the running process *)

\* contents the token file is rewritten with
RotatedTokens == {Unreadable, "tok1", "tok2"}

\* the token file is rewritten, or removed, by the cluster
rotate_token ==
    /\ \E t \in RotatedTokens \ {token_file} :
         /\ token_file' = t
         /\ args' = <<token_file, t>>
    /\ op' = "token rotated"
    /\ reqs' = <<>>
    /\ calls' = <<>>
    /\ pods' = NoPods
    /\ nodes' = NoNodes
    /\ ret' = Return(None)
    /\ UNCHANGED <<environ, instance, files, _instances, fatal, self>>

NextToken ==
    \/ KubeUtil
    \/ query_kubelet
    \/ rotate_token

SpecToken == Init /\ [][NextToken]_vars

-----------------------------------------------------------------------------
(* C15 and C17, checked under SpecToken *)

\* the last operation was an https perform_kubelet_query on an object
\* without a client certificate
TokenQuery ==
    /\ op = "perform_kubelet_query"
    /\ IsHttps(args[1])
    /\ "kubelet_client_cert" \notin DOMAIN self.tls_settings

\* the Authorization header for the content t of the token file
HeaderOf(t) == <<"Bearer", IF t = Unreadable THEN "None" ELSE t>>

\* C15: every https kubelet query made without a client certificate carries
\* the content the token file has when the query is made; a query that
\* follows a change of the file carries the new content, not the old
C15_TokenReadPerQuery ==
    [][TokenQuery' =>
          /\ Len(reqs') = 1
          /\ HasAuth(reqs'[1])
          /\ reqs'[1].headers["Authorization"] = HeaderOf(token_file')
          /\ op = "token rotated" =>
                /\ reqs'[1].headers["Authorization"] = HeaderOf(args[2])
                /\ reqs'[1].headers["Authorization"] # HeaderOf(args[1])
      ]_vars

\* a query carries tok2, which only a rotation puts into the file
C15_Witness ==
    /\ TokenQuery
    /\ token_file = "tok2"
    /\ reqs[1].headers["Authorization"] = <<"Bearer", "tok2">>

\* C17: with an unreadable token file, an https kubelet query without a
\* client certificate is sent all the same: one request goes to the URL
\* asked for, and the call raises only what the request raised and
\* otherwise returns the response
C17_SentWithoutToken ==
    (TokenQuery /\ token_file = Unreadable) =>
        /\ Len(reqs) = 1
        /\ reqs[1].url = args[1]
        /\ HasAuth(reqs[1])
        /\ reqs[1].headers["Authorization"] = <<"Bearer", "None">>
        /\ ret.raised <=> reqs[1].exc # None
        /\ ret.raised => (ret.exc = reqs[1].exc /\ ret.exc \in NetErrors)
        /\ ~ret.raised => ret.value.status = reqs[1].status

\* the query was sent without a token and the kubelet answered 404
C17_Witness ==
    /\ TokenQuery
    /\ token_file = Unreadable
    /\ Len(reqs) = 1
    /\ reqs[1].status = 404
    /\ ~ret.raised

-----------------------------------------------------------------------------
(* C16, checked under SpecLocate *)

\* the last operation constructed the object with no host given by the
\* environment or the configuration
DerivesHost ==
    /\ op = "KubeUtil"
    /\ reqs # <<>>
    /\ ~Present(Get(environ, "KUBERNETES_KUBELET_HOST"))
    /\ ~Present(Get(instance, "host"))

\* the request is the apiserver's node lookup
IsNodeLookup(r) == r.url.path = "/api/v1/nodes"

\* the node list the lookup received cannot be read: not JSON, or no items
Unreadable_nodes == nodes = NotJSON \/ "items" \notin DOMAIN nodes

\* the addresses of the single node of the list the lookup received
NodeAddresses ==
    IF Len(nodes["items"]) # 1 THEN <<>>
    ELSE IF "status" \notin DOMAIN nodes["items"][1] THEN <<>>
    ELSE IF "addresses" \notin DOMAIN nodes["items"][1]["status"] THEN <<>>
    ELSE nodes["items"][1]["status"]["addresses"]

\* the Hostname addresses among them, by position
HostnameAt == {i \in DOMAIN NodeAddresses : NodeAddresses[i].type = "Hostname"}

\* the host to probe after a lookup that ended in an error when `failed`
HostAfterLookup(failed) ==
    IF failed \/ Unreadable_nodes \/ HostnameAt = {} THEN docker_hostname
    ELSE NodeAddresses[CHOOSE i \in HostnameAt : \A j \in HostnameAt : i <= j].address

\* what C16 says of a derivation in which an answer with one of the
\* statuses `errors`, like an exception of the request, is an error
HostDerivation(errors) ==
    DerivesHost =>
        /\ Probes # <<>>
        /\ calls[1] = "docker_util.get_hostname"
        /\ \A i \in DOMAIN Probes : Probes[i].url.host = Probes[1].url.host
        /\ VerifyAsked = PyFalse =>
              /\ calls = <<"docker_util.get_hostname">>
              /\ reqs = Probes
              /\ Probes[1].url.host = docker_hostname
        /\ VerifyAsked # PyFalse =>
              /\ calls = <<"docker_util.get_hostname", "get_node_hostname">>
              /\ IsNodeLookup(reqs[1])
              /\ Tail(reqs) = Probes
              /\ Probes[1].url.host =
                    HostAfterLookup(reqs[1].exc # None \/ reqs[1].status \in errors)

\* C16 as stated: with no host given and verification off, the runtime
\* hostname is probed and the apiserver is not queried; with verification
\* on, the node lookup is made before any probe and its hostname is probed
\* when it returns one, while an error of the lookup (a non-2xx answer
\* included) or a null result (a node count other than 1, no Hostname
\* address) makes the runtime hostname the one probed
C16_LookupOrRuntimeHost == HostDerivation({s \in Statuses : s < 200 \/ s >= 300})

\* C16 amended: the same, where the answers that count as errors of the
\* lookup are those with a 4xx or a 5xx status
C16_LookupOrRuntimeHost4xx5xx == HostDerivation({s \in Statuses : s >= 400 /\ s < 600})

\* the lookup was answered 404 with a node list naming the host: the
\* runtime hostname is probed
C16_Witness ==
    /\ DerivesHost
    /\ IsNodeLookup(reqs[1])
    /\ reqs[1].status = 404
    /\ ~Unreadable_nodes
    /\ HostnameAt # {}
    /\ Len(Probes) = 2
    /\ Probes[2].url.host = docker_hostname

-----------------------------------------------------------------------------
(* The other operations of a constructed object *)

\* the pods a caller's list holds: one with a namespace, labels, a host IP
\* and a node name, one without a namespace, one without labels
ListedPods ==
    {[metadata |-> [name |-> "pod1", namespace |-> "ns",
                    labels |-> <<<<"app", "web">>, <<"tier", "db">>>>],
      status |-> "hostIP" :> "10.0.0.5", spec |-> "nodeName" :> "node-a"],
     [metadata |-> [name |-> "other", labels |-> <<<<"app", "web">>>>]],
     [metadata |-> [name |-> "p2", namespace |-> "ns"]]}

ListedBodies == {NotJSON, EmptyDict} \cup {"items" :> i : i \in SeqUpTo(ListedPods, MaxListed)}

\* outcomes of a caller's pod-list request
ListedOutcomes == {Failed(e) : e \in NetErrors}
                  \cup {Response(s, b) : s \in {200, 500}, b \in ListedBodies}

\* KubeUtil().retrieve_pods_list()
list_pods ==
    /\ _instances = "present"
    /\ \E outcome \in ListedOutcomes :
         /\ op' = "retrieve_pods_list"
         /\ args' = <<>>
         /\ Queries(retrieve_pods_list(self, outcome))

\* get_kube_labels, line 172, given what retrieve_pods_list did: its
\* exception escapes, its list goes to extract_kube_labels
labels_from(q, kw) ==
    [req |-> q.req,
     res |-> IF q.res.raised THEN q.res ELSE Return(extract_kube_labels(q.res.value, kw))]

\* KubeUtil.get_kube_labels(excluded_keys=None)
get_kube_labels(obj, kw, outcome) == labels_from(retrieve_pods_list(obj, outcome), kw)

\* KubeUtil().get_kube_labels(excluded_keys)
kube_labels ==
    /\ _instances = "present"
    /\ \E kw \in ExcludedArgs, outcome \in ListedOutcomes :
         /\ op' = "get_kube_labels"
         /\ args' = <<kw>>
         /\ Queries(get_kube_labels(self, kw, outcome))

\* KubeUtil().extract_kube_labels(pods_list, excluded_keys)
call_extract_kube_labels ==
    /\ _instances = "present"
    /\ \E pods_list \in ListedBodies \ {NotJSON}, kw \in ExcludedArgs :
         extract_labels(pods_list, kw)

\* KubeUtil().get_node_hostname(host)
lookup_node_hostname ==
    /\ _instances = "present"
    /\ \E outcome \in ApiOutcomes :
         /\ op' = "get_node_hostname"
         /\ args' = <<docker_hostname>>
         /\ Queries(get_node_hostname(self.kubernetes_api_url, docker_hostname, outcome))

\* str.lower() on the event words that occur
lower_word(s) == IF s = "Killing" THEN "killing" ELSE IF s = "Pod" THEN "pod" ELSE s

\* KubeUtil.extract_event_tags(event)
extract_event_tags(event) ==
    (IF "reason" \in DOMAIN event
     THEN <<<<"reason:", lower_word(event["reason"])>>>> ELSE <<>>)
    \o (IF "namespace" \in DOMAIN GetD(event, "metadata", EmptyDict)
        THEN <<<<"namespace:", event["metadata"]["namespace"]>>>> ELSE <<>>)
    \o (IF "host" \in DOMAIN GetD(event, "source", EmptyDict)
        THEN <<<<"node_name:", event["source"]["host"]>>>> ELSE <<>>)
    \o (IF "kind" \in DOMAIN GetD(event, "involvedObject", EmptyDict)
        THEN <<<<"object_type:", lower_word(event["involvedObject"]["kind"])>>>> ELSE <<>>)

\* events of the apiserver, each part present or not
Events ==
    {r @@ m @@ s @@ o :
        r \in Opt("reason", {"Killing"}),
        m \in Opt("metadata", {"namespace" :> "ns"}),
        s \in Opt("source", {"host" :> "node-a"}),
        o \in Opt("involvedObject", {"kind" :> "Pod"})}

\* KubeUtil().extract_event_tags(event)
event_tags ==
    /\ _instances = "present"
    /\ \E event \in Events :
         /\ op' = "extract_event_tags"
         /\ args' = <<event>>
         /\ ret' = Return(extract_event_tags(event))
    /\ calls' = <<>>
    /\ reqs' = <<>>
    /\ pods' = NoPods
    /\ nodes' = NoNodes
    /\ UNCHANGED <<self, _instances, fatal>>
    /\ Unchanged

\* a process whose kubelet host is given, with or without a client
\* certificate, with its files, a token and a HOSTNAME
InitFrame ==
    /\ environ = ("KUBERNETES_KUBELET_HOST" :> "envhost") @@ ("HOSTNAME" :> "pod1")
    /\ instance \in {cc \in ClientConfigs : DOMAIN cc # {"kubelet_client_crt"}}
    /\ files = AllFiles
    /\ token_file = "tok1"
    /\ Fresh

\* construction followed by any sequence of the object's operations
NextFrame ==
    \/ KubeUtil
    \/ get_node_info
    \/ list_pods
    \/ kube_labels
    \/ call_extract_kube_labels
    \/ event_tags
    \/ query_kubelet
    \/ query_apiserver
    \/ lookup_node_hostname

SpecFrame == InitFrame /\ [][NextFrame]_vars

-----------------------------------------------------------------------------
(* C18, checked under SpecFrame *)

\* C18: on a constructed object no operation, whether it returns or raises,
\* changes the kubelet base URL, the kubelet host or the TLS settings, or
\* undoes the construction; none runs the host selection of the discovery,
\* and a request to the health path is only ever the one request a caller
\* asks perform_kubelet_query for
C18_DiscoveryIsFrozen ==
    [][_instances = "present" =>
          /\ _instances' = "present"
          /\ self'.kubelet_api_url = self.kubelet_api_url
          /\ self'.kubelet_host = self.kubelet_host
          /\ self'.tls_settings = self.tls_settings
          /\ calls' = <<>>
          /\ \A i \in DOMAIN reqs' :
                IsProbe(reqs'[i]) =>
                    /\ op' = "perform_kubelet_query"
                    /\ Len(reqs') = 1
                    /\ reqs'[i].url = args'[1]
      ]_vars

\* get_kube_labels failed on an object whose identity is cached: the object
\* still holds the base URL it was constructed with
C18_Witness ==
    /\ _instances = "present"
    /\ op = "get_kube_labels"
    /\ ret.raised
    /\ Identified(self)
    /\ self.kubelet_api_url = BaseURL("https", "envhost", DEFAULT_HTTPS_KUBELET_PORT)
    /\ self.kubelet_host = "envhost"

-----------------------------------------------------------------------------
(* C19, checked under Spec *)

\* metadata.get("name") of pod i of the list get_node_info received
NameOf(body, i) ==
    IF "metadata" \in DOMAIN body["items"][i] /\ "name" \in DOMAIN body["items"][i]["metadata"]
    THEN body["items"][i]["metadata"]["name"]
    ELSE None

\* the list has no pod whose name equals the local host name, as the scan
\* compares them: the HOSTNAME of the environment, None when it is not set,
\* with metadata.get("name")
NoPodOfHost(body, host_name) ==
    \/ "items" \notin DOMAIN body
    \/ \A i \in DOMAIN body["items"] : NameOf(body, i) # host_name

\* C19: while the identity fields are None, every get_node_info call issues
\* exactly one request, for the pod list; when the list that comes back has
\* no pod named like the local host, both fields are None afterwards and
\* (None, None) is returned, so that the next call fetches again
C19_AbsenceNotCached ==
    [][(/\ _instances = "present"
        /\ ~Identified(self)
        /\ op' = "get_node_info") =>
          /\ Len(reqs') = 1
          /\ reqs'[1].url = self.pods_list_url
          /\ (/\ reqs'[1].exc = None
              /\ pods' # NotJSON
              /\ NoPodOfHost(pods', self.host_name)) =>
                /\ self'._node_ip = None
                /\ self'._node_name = None
                /\ ret' = Return(<<None, None>>)
      ]_vars

\* a call received a list of two pods of which none is the local one, and
\* left both fields None
C19_Witness ==
    /\ op = "get_node_info"
    /\ Len(reqs) = 1
    /\ reqs[1].status = 200
    /\ "items" \in DOMAIN pods
    /\ Len(pods["items"]) = 2
    /\ self.host_name = "pod1"
    /\ NoPodOfHost(pods, self.host_name)
    /\ self._node_ip = None
    /\ self._node_name = None

-----------------------------------------------------------------------------
(* C20, checked under SpecLocate *)

\* C20: the probes of a discovery all go to one host; with kubelet_port
\* configured they all go to that port, and without it the HTTP probe goes
\* to 10255 and the HTTPS probe to 10250
C20_OnePortKey ==
    Discovered =>
        /\ \A i \in DOMAIN Probes : Probes[i].url.host = Probes[1].url.host
        /\ "kubelet_port" \in DOMAIN instance =>
              \A i \in DOMAIN Probes : Probes[i].url.port = instance["kubelet_port"]
        /\ "kubelet_port" \notin DOMAIN instance =>
              \A i \in DOMAIN Probes :
                  Probes[i].url.port = (IF Probes[i].url.scheme = "http" THEN 10255 ELSE 10250)
        /\ HasURL => self.kubelet_api_url.port = Probes[Len(Probes)].url.port

\* both probes were issued with kubelet_port configured: both went to it
C20_Witness ==
    /\ Discovered
    /\ Len(Probes) = 2
    /\ "kubelet_port" \in DOMAIN instance
    /\ Probes[1].url.scheme = "http" /\ Probes[1].url.port = 10260
    /\ Probes[2].url.scheme = "https" /\ Probes[2].url.port = 10260

====
